---- MODULE Spec2Model ----
(***************************************************************************)
(* NutriGraph ingredient resolution engine.                                *)
(*                                                                         *)
(*   - src/src/backend/clarification_graph.py : the LangGraph pipeline     *)
(*     retrieve -> decide_low_conf -> {ask | END}                          *)
(*   - src/src/backend/retriever.py : HybridNutritionRetriever             *)
(*   - src/src/backend/retrieval_server.py : the lazily built module-level *)
(*     handles the pipeline uses                                           *)
(*                                                                         *)
(* Numbers.  Distances are fixed-point in hundredths (DistUnit), scores    *)
(* and thresholds in millionths (Scale).  A Python str is a sequence of    *)
(* one-character strings; a Python list is a sequence, and list indices    *)
(* stored by the program (low_conf_indices) are kept 0-based as in Python. *)
(* Python's None for an optional value is the empty sequence <<>>, a       *)
(* present value v is <<v>>.                                               *)
(***************************************************************************)
EXTENDS Integers, Sequences, FiniteSets, TLC

VARIABLES
    \* ---- environment shared by both entry points
    store,                  \* documents of the Chroma collection
    fault,                  \* the collaborator failure of this request
    calls,                  \* collaborator calls made so far, in order
    \* ---- retrieval_server.py module-level handles
    _collection, _model,
    \* ---- ClarificationState, the keys it carries, and the graph position
    keys, ingredients, threshold, matches, scores,
    low_conf_indices, low_conf_ingredients, questions,
    default_threshold, pc, trace,
    \* ---- one call of HybridNutritionRetriever.search_ingredient
    query, brand, top_k, r_collection, r_model, spc, results, outcomes,
    \* ---- one application of a score function to its arguments
    fn, arg_distance, arg_distance2, arg_query, arg_name, ret,
    \* ---- concurrent callers of a lazy getter
    caller_pc, caller_new, caller_ret,
    \* ---- a request repeated with the same inputs: the state the caller passed
    \* to the graph, and what the first request left behind
    state_in, first

vars == <<store, fault, calls, _collection, _model,
          keys, ingredients, threshold, matches, scores,
          low_conf_indices, low_conf_ingredients, questions,
          default_threshold, pc, trace,
          query, brand, top_k, r_collection, r_model, spc, results, outcomes,
          fn, arg_distance, arg_distance2, arg_query, arg_name, ret,
          caller_pc, caller_new, caller_ret, state_in, first>>

envVars    == <<store, fault>>
graphVars  == <<_collection, _model, keys, ingredients, threshold, matches, scores,
                low_conf_indices, low_conf_ingredients, questions,
                default_threshold, pc, trace>>
searchVars == <<query, brand, top_k, r_collection, r_model, spc, results, outcomes>>
scoreVars  == <<fn, arg_distance, arg_distance2, arg_query, arg_name, ret>>
lazyVars   == <<caller_pc, caller_new, caller_ret>>
repeatVars == <<state_in, first>>

(***************************************************************************)
(* Bounds and fixed-point units                                            *)
(***************************************************************************)
MaxIngredients == 2
MaxTopK == 2
MaxCallers == 3

\* scores are counted in millionths, distances in hundredths
Scale == 1000 * 1000
DistUnit == 10 * 10

None == <<>>
Some(v) == <<v>>

Max(a, b) == IF a >= b THEN a ELSE b

\* Op applied to the value of e, with e evaluated once (a local variable of the
\* code: TLC otherwise re-evaluates an operator argument at every use)
Bind(e, Op(_)) == CHOOSE r \in { Op(v) : v \in {e} } : TRUE
Abs(a) == IF a >= 0 THEN a ELSE 0 - a

(***************************************************************************)
(* Python str operations                                                   *)
(***************************************************************************)
LowerChar(c) ==
    CASE c = "A" -> "a"
      [] c = "B" -> "b"
      [] OTHER -> c

\* str.lower()
Lower(s) == [i \in 1..Len(s) |-> LowerChar(s[i])]

RECURSIVE LStrip(_)
LStrip(s) ==
    IF s # <<>> /\ Head(s) = " " THEN LStrip(Tail(s)) ELSE s

RECURSIVE RStrip(_)
RStrip(s) ==
    IF s # <<>> /\ s[Len(s)] = " " THEN RStrip(SubSeq(s, 1, Len(s) - 1)) ELSE s

\* str.strip()
Strip(s) == RStrip(LStrip(s))

\* str.split() : the maximal runs of non-whitespace characters, in order
RECURSIVE SplitFrom(_, _, _)
SplitFrom(s, i, cur) ==
    IF i > Len(s)
    THEN IF cur = <<>> THEN <<>> ELSE <<cur>>
    ELSE IF s[i] = " "
         THEN (IF cur = <<>> THEN <<>> ELSE <<cur>>) \o SplitFrom(s, i + 1, <<>>)
         ELSE SplitFrom(s, i + 1, Append(cur, s[i]))

Split(s) == SplitFrom(s, 1, <<>>)

\* needle in hay
Contains(hay, needle) ==
    \E i \in 0..(Len(hay) - Len(needle)) :
        SubSeq(hay, i + 1, i + Len(needle)) = needle

\* the query texts callers send: empty, blank, plain, padded, upper-case,
\* another word, two tokens
Texts ==
    { <<>>, <<" ">>, <<"a">>, <<" ", "a">>, <<"A">>, <<"b">>, <<"a", " ", "b">> }

(***************************************************************************)
(* Score functions of clarification_graph.py                               *)
(***************************************************************************)
\* 1.0 / (1.0 + max(distance, 0.0))
_compute_score(distance) ==
    (Scale * DistUnit) \div (DistUnit + Max(distance, 0))

\* {t for t in text.lower().split() if t}
Tokens(text) ==
    LET Set(toks) == { toks[i] : i \in 1..Len(toks) }
    IN  Bind(Split(Lower(text)), Set)

\* mutant: the share of the query's tokens found in the candidate
_lexical_overlap_Containment(q, candidate) ==
    LET Overlap(q_tokens, c_tokens) ==
            IF q_tokens = {} \/ c_tokens = {} THEN 0
            ELSE (Scale * Cardinality(q_tokens \cap c_tokens)) \div Cardinality(q_tokens)
    IN  Bind(Tokens(q), LAMBDA q_tokens :
            Bind(Tokens(candidate), LAMBDA c_tokens : Overlap(q_tokens, c_tokens)))

_lexical_overlap(q, candidate) ==
    LET Overlap(q_tokens, c_tokens) ==
            LET inter == q_tokens \cap c_tokens
                union == q_tokens \cup c_tokens
            IN  IF q_tokens = {} \/ c_tokens = {} THEN 0
                ELSE IF union = {} THEN 0
                ELSE (Scale * Cardinality(inter)) \div Cardinality(union)
    IN  Bind(Tokens(q), LAMBDA q_tokens :
            Bind(Tokens(candidate), LAMBDA c_tokens : Overlap(q_tokens, c_tokens)))

\* mutant: the lexical share is added on top of the full similarity
_combined_match_score_Additive(distance, q, candidate_name) ==
    LET sim_dist == _compute_score(distance)
        lex      == _lexical_overlap(q, candidate_name)
    IN  sim_dist + (3 * lex) \div 10

\* 0.7 * sim_dist + 0.3 * lex
_combined_match_score(distance, q, candidate_name) ==
    LET sim_dist == _compute_score(distance)
        lex      == _lexical_overlap(q, candidate_name)
    IN  (7 * sim_dist + 3 * lex) \div 10

(***************************************************************************)
(* The collaborators: embedding model and Chroma collection                *)
(***************************************************************************)
\* dict.get(key): None when the key is absent
Get(meta, key) == IF key \in DOMAIN meta THEN Some(meta[key]) ELSE None

CharCode(c) ==
    CASE c = "a" -> 1
      [] c = "b" -> 2
      [] OTHER -> 0

\* SentenceTransformer.encode of one text: a deterministic vector (here a
\* point on a line); the model is uncased.
RECURSIVE Embed(_)
Embed(text) ==
    IF text = <<>> THEN 0
    ELSE CharCode(LowerChar(Head(text))) + Embed(Tail(text))

\* neighbouring points of the embedding line are 0.5 apart
DistStep == DistUnit \div 2

\* the distance the collection reports between a query vector and a document;
\* a document of a stub store carries the distance it answers per query vector
Distance(vec, doc) ==
    IF "stub" \in DOMAIN doc THEN doc.stub[vec]
    ELSE DistStep * Abs(vec - doc.vec)

EmptyStore == <<>>

PlainStore ==
    << [id |-> "d1", vec |-> 1,
        meta |-> [name |-> <<"a">>, source |-> "usda", energy_kcal |-> 165,
                  protein_g |-> 31, carbohydrates_g |-> 0, fat_g |-> 4]],
       [id |-> "d2", vec |-> 3,
        meta |-> [name |-> <<"a", "b">>, source |-> "usda"]] >>

BrandedStore ==
    << [id |-> "d1", vec |-> 1,
        meta |-> [name |-> <<"a">>, source |-> "off", brand |-> <<"B">>,
                  energy_kcal |-> 165, carbs_g |-> 0]],
       [id |-> "d2", vec |-> 3,
        meta |-> [name |-> <<"a", "b">>, source |-> "off", brand |-> <<"B">>,
                  carbohydrates_g |-> 7]],
       [id |-> "d3", vec |-> 2,
        meta |-> [name |-> <<"B", " ", "a">>, source |-> "usda", energy_kcal |-> 0]] >>

Stores == { EmptyStore, PlainStore, BrandedStore }

\* two documents with the same name, equally far from a query between them
TieStore ==
    << [id |-> "d1", vec |-> 1,
        meta |-> [name |-> <<"a">>, source |-> "usda", energy_kcal |-> 165]],
       [id |-> "d2", vec |-> 3,
        meta |-> [name |-> <<"a">>, source |-> "off", energy_kcal |-> 160]] >>

SearchStores == Stores \cup { TieStore }

\* stable insertion of x into a sequence sorted ascending by field key
RECURSIVE InsertAsc(_, _, _)
InsertAsc(sorted, x, key) ==
    IF sorted = <<>> THEN <<x>>
    ELSE IF Head(sorted)[key] <= x[key]
         THEN <<Head(sorted)>> \o InsertAsc(Tail(sorted), x, key)
         ELSE <<x>> \o sorted

RECURSIVE SortAsc(_, _)
SortAsc(s, key) ==
    IF s = <<>> THEN <<>>
    ELSE Bind(SortAsc(SubSeq(s, 1, Len(s) - 1), key),
              LAMBDA sorted : InsertAsc(sorted, s[Len(s)], key))

\* mutant: x is put in front of the elements with an equal key
RECURSIVE InsertDesc_BeforeEqual(_, _, _)
InsertDesc_BeforeEqual(sorted, x, key) ==
    IF sorted = <<>> THEN <<x>>
    ELSE IF Head(sorted)[key] > x[key]
         THEN <<Head(sorted)>> \o InsertDesc_BeforeEqual(Tail(sorted), x, key)
         ELSE <<x>> \o sorted

\* stable insertion of x into a sequence sorted descending by field key
RECURSIVE InsertDesc(_, _, _)
InsertDesc(sorted, x, key) ==
    IF sorted = <<>> THEN <<x>>
    ELSE IF Head(sorted)[key] >= x[key]
         THEN <<Head(sorted)>> \o InsertDesc(Tail(sorted), x, key)
         ELSE <<x>> \o sorted

\* list.sort(key=..., reverse=True): stable, highest key first
RECURSIVE SortDesc(_, _)
SortDesc(s, key) ==
    IF s = <<>> THEN <<>>
    ELSE Bind(SortDesc(SubSeq(s, 1, Len(s) - 1), key),
              LAMBDA sorted : InsertDesc(sorted, s[Len(s)], key))

RECURSIVE Filter(_, _)
Filter(docs, where) ==
    IF docs = <<>> THEN <<>>
    ELSE (IF where = None
             \/ ("brand" \in DOMAIN Head(docs).meta /\ Head(docs).meta.brand = where[1])
          THEN <<Head(docs)>> ELSE <<>>) \o Filter(Tail(docs), where)

Take(s, n) == SubSeq(s, 1, IF Len(s) < n THEN Len(s) ELSE n)

\* collection.query for one query vector: the n_results nearest documents that
\* pass the where filter, nearest first, each with its id, distance, metadata
StoreQuery(docs, vec, n_results, where) ==
    LET Row(doc, v) == [id |-> doc.id, distance |-> Distance(v, doc), meta |-> doc.meta]
        Rows(hits) == Bind(vec, LAMBDA v : [i \in 1..Len(hits) |-> Row(hits[i], v)])
        Nearest(rows) == Take(SortAsc(rows, "distance"), n_results)
    IN  Bind(Bind(Filter(docs, where), Rows), Nearest)

(***************************************************************************)
(* retrieval_server.py : lazily built module-level handles                 *)
(***************************************************************************)
\* mutant: the handle is assigned before the lookup of the collection fails
GetCollection_CachesFailure(handle, log) ==
    IF handle # None
    THEN [raised |-> FALSE, handle |-> handle, calls |-> log]
    ELSE [raised |-> fault = "collection_init", handle |-> Some("collection"),
          calls |-> Append(log, "get_collection")]

\* _get_collection(): [raised, handle, calls]
\* PersistentClient(...).get_collection(...) runs only while the handle is unset
GetCollection(handle, log) ==
    IF handle # None
    THEN [raised |-> FALSE, handle |-> handle, calls |-> log]
    ELSE IF fault = "collection_init"
         THEN [raised |-> TRUE, handle |-> None,
               calls |-> Append(log, "get_collection")]
         ELSE [raised |-> FALSE, handle |-> Some("collection"),
               calls |-> Append(log, "get_collection")]

\* _get_embedding_model(): [raised, handle, calls]
GetEmbeddingModel(handle, log) ==
    IF handle # None
    THEN [raised |-> FALSE, handle |-> handle, calls |-> log]
    ELSE IF fault = "model_init"
         THEN [raised |-> TRUE, handle |-> None,
               calls |-> Append(log, "SentenceTransformer")]
         ELSE [raised |-> FALSE, handle |-> Some("model"),
               calls |-> Append(log, "SentenceTransformer")]

(***************************************************************************)
(* clarification_graph.py : the nodes                                      *)
(***************************************************************************)
\* state.get(key, []) for the list-valued keys
StateGet(key, value) == IF key \in keys THEN value ELSE <<>>

\* [text.strip() for text in state.get("ingredients", []) if text.strip()]
RECURSIVE StripNonBlank(_)
StripNonBlank(texts) ==
    IF texts = <<>> THEN <<>>
    ELSE (IF Strip(Head(texts)) # <<>> THEN <<Strip(Head(texts))>> ELSE <<>>)
         \o StripNonBlank(Tail(texts))

\* one RetrievalMatch of retrieve_node's inner loop
RetrievalMatch(row, query_text) ==
    LET meta == row.meta
        name == IF "name" \in DOMAIN meta THEN meta.name ELSE <<>>
    IN  [id |-> row.id,
         name |-> name,
         source |-> IF "source" \in DOMAIN meta THEN meta.source ELSE "",
         distance |-> row.distance,
         score |-> _combined_match_score(row.distance, query_text, name),
         energy_kcal |-> Get(meta, "energy_kcal"),
         protein_g |-> Get(meta, "protein_g"),
         carbohydrates_g |-> Get(meta, "carbohydrates_g"),
         fat_g |-> Get(meta, "fat_g"),
         fdc_id |-> Get(meta, "fdc_id")]

\* the unsorted ing_matches of one ingredient (n_results=5)
RECURSIVE MatchesOf(_, _)
MatchesOf(rows, query_text) ==
    IF rows = <<>> THEN <<>>
    ELSE <<RetrievalMatch(Head(rows), query_text)>> \o MatchesOf(Tail(rows), query_text)

IngMatches(docs, query_text) ==
    LET Matches(rows) == MatchesOf(rows, query_text)
    IN  Bind(StoreQuery(docs, Embed(query_text), 5, None), Matches)

\* mutant: the best score is taken from the nearest candidate
BestScore_First(ms) ==
    IF ms = <<>> THEN 0 ELSE Head(ms).score

\* best_score = 0.0; best_score = max(best_score, score) over the matches
RECURSIVE BestScore(_)
BestScore(ms) ==
    IF ms = <<>> THEN 0 ELSE Max(BestScore(Tail(ms)), Head(ms).score)

\* mutant: the edge to "ask" is taken unconditionally
router_AlwaysAsk(low) == "ask"

\* the conditional edge out of decide_low_conf
router(low) == IF low # <<>> THEN "ask" ELSE "END"

\* mutant: the boundary is <= instead of <
RECURSIVE LowIndices_Le(_, _, _)
LowIndices_Le(scs, thr, idx) ==
    IF scs = <<>> THEN <<>>
    ELSE (IF Head(scs) <= thr THEN <<idx>> ELSE <<>>)
         \o LowIndices_Le(Tail(scs), thr, idx + 1)

\* mutant: the indices are counted from 1
RECURSIVE LowIndices_OneBased(_, _, _)
LowIndices_OneBased(scs, thr, idx) ==
    IF scs = <<>> THEN <<>>
    ELSE (IF Head(scs) < thr THEN <<idx + 1>> ELSE <<>>)
         \o LowIndices_OneBased(Tail(scs), thr, idx + 1)

\* low_indices = [idx for idx, s in enumerate(scores) if s < threshold]
RECURSIVE LowIndices(_, _, _)
LowIndices(scs, thr, idx) ==
    IF scs = <<>> THEN <<>>
    ELSE (IF Head(scs) < thr THEN <<idx>> ELSE <<>>)
         \o LowIndices(Tail(scs), thr, idx + 1)

\* mutant: the bounds test drops the last ingredient
RECURSIVE LowIngredients_OffByOne(_, _)
LowIngredients_OffByOne(ings, low) ==
    IF low = <<>> THEN <<>>
    ELSE (IF Head(low) + 1 < Len(ings) THEN <<ings[Head(low) + 1]>> ELSE <<>>)
         \o LowIngredients_OffByOne(ings, Tail(low))

\* [ingredients[idx] for idx in low_indices if idx < len(ingredients)]
RECURSIVE LowIngredients(_, _)
LowIngredients(ings, low) ==
    IF low = <<>> THEN <<>>
    ELSE (IF Head(low) < Len(ings) THEN <<ings[Head(low) + 1]>> ELSE <<>>)
         \o LowIngredients(ings, Tail(low))

\* mutant: the template is filled without the ingredient
Question_Anonymous(ing) ==
    [template |-> "For the ingredient '{ing}', can you clarify ...", ing |-> <<>>]

\* the templated question of ask_node
Question(ing) == [template |-> "For the ingredient '{ing}', can you clarify ...",
                  ing |-> ing]

\* retrieve_node, as the values it leaves behind: the handles, the calls
\* made, the keys it wrote, and whether it returned or raised
RetrieveResult ==
    LET c  == GetCollection(_collection, calls)
        m  == GetEmbeddingModel(_model, c.calls)
        raise(handle, log) ==
            [pc |-> "raised", collection |-> c.handle, model |-> handle, calls |-> log,
             keys |-> keys, matches |-> matches, scores |-> scores,
             low_conf_indices |-> low_conf_indices,
             low_conf_ingredients |-> low_conf_ingredients]
        \* the loop over the filtered ingredients
        Sorted(ing_matches) == SortDesc(ing_matches, "score")
        Loop(texts) ==
            [pc |-> "decide", collection |-> c.handle, model |-> m.handle,
             calls |-> m.calls \o <<"encode", "query">>,
             keys |-> keys \cup {"matches", "scores"},
             matches |-> [i \in 1..Len(texts) |->
                             Bind(IngMatches(store, texts[i]), Sorted)],
             scores |-> [i \in 1..Len(texts) |->
                            Bind(IngMatches(store, texts[i]), BestScore)],
             low_conf_indices |-> low_conf_indices,
             low_conf_ingredients |-> low_conf_ingredients]
        Body(texts) ==
            IF texts = <<>>
            THEN [pc |-> "decide", collection |-> c.handle, model |-> m.handle,
                  calls |-> m.calls,
                  keys |-> keys \cup {"matches", "scores", "low_conf_indices",
                                      "low_conf_ingredients"},
                  matches |-> <<>>, scores |-> <<>>,
                  low_conf_indices |-> <<>>, low_conf_ingredients |-> <<>>]
            ELSE IF fault = "encode" THEN raise(m.handle, Append(m.calls, "encode"))
            ELSE IF fault = "query"
                 THEN raise(m.handle, m.calls \o <<"encode", "query">>)
            ELSE Loop(texts)
    IN  IF c.raised THEN raise(_model, c.calls)
        ELSE IF m.raised THEN raise(m.handle, m.calls)
        ELSE Bind(StripNonBlank(StateGet("ingredients", ingredients)), Body)

retrieve_node ==
    /\ pc = "retrieve"
    /\ \E r \in {RetrieveResult} :
          /\ pc' = r.pc
          /\ _collection' = r.collection
          /\ _model' = r.model
          /\ calls' = r.calls
          /\ keys' = r.keys
          /\ matches' = r.matches
          /\ scores' = r.scores
          /\ low_conf_indices' = r.low_conf_indices
          /\ low_conf_ingredients' = r.low_conf_ingredients
    /\ trace' = Append(trace, "retrieve")
    /\ UNCHANGED <<ingredients, threshold, questions, default_threshold>>
    /\ UNCHANGED <<envVars, searchVars, scoreVars, lazyVars, repeatVars>>

\* mutant: "state.get('threshold') or default_threshold": an explicit 0.0 is
\* taken for a missing threshold
decide_low_conf_node_FalsyThreshold ==
    /\ pc = "decide"
    /\ LET thr == IF "threshold" \in keys /\ threshold # 0
                  THEN threshold ELSE default_threshold
           low_indices == LowIndices(StateGet("scores", scores), thr, 0)
       IN  /\ low_conf_indices' = low_indices
           /\ low_conf_ingredients' =
                  LowIngredients(StateGet("ingredients", ingredients), low_indices)
           /\ pc' = router(low_indices)
    /\ keys' = keys \cup {"low_conf_indices", "low_conf_ingredients"}
    /\ trace' = Append(trace, "decide_low_conf")
    /\ UNCHANGED <<_collection, _model, ingredients, threshold, matches, scores,
                   questions, default_threshold, calls>>
    /\ UNCHANGED <<envVars, searchVars, scoreVars, lazyVars, repeatVars>>

decide_low_conf_node ==
    /\ pc = "decide"
    /\ LET thr == IF "threshold" \in keys THEN threshold ELSE default_threshold
           low_indices == LowIndices(StateGet("scores", scores), thr, 0)
       IN  /\ low_conf_indices' = low_indices
           /\ low_conf_ingredients' =
                  LowIngredients(StateGet("ingredients", ingredients), low_indices)
           /\ pc' = router(low_indices)
    /\ keys' = keys \cup {"low_conf_indices", "low_conf_ingredients"}
    /\ trace' = Append(trace, "decide_low_conf")
    /\ UNCHANGED <<_collection, _model, ingredients, threshold, matches, scores,
                   questions, default_threshold, calls>>
    /\ UNCHANGED <<envVars, searchVars, scoreVars, lazyVars, repeatVars>>

\* mutant: ASK looks the low-confidence ingredients up again
ask_node_Requery ==
    /\ pc = "ask"
    /\ LET low_conf == StateGet("low_conf_ingredients", low_conf_ingredients)
       IN  questions' = [k \in 1..Len(low_conf) |-> Question(low_conf[k])]
    /\ keys' = keys \cup {"questions"}
    /\ pc' = "END"
    /\ trace' = Append(trace, "ask")
    /\ calls' = calls \o <<"encode", "query">>
    /\ UNCHANGED <<_collection, _model, ingredients, threshold, matches, scores,
                   low_conf_indices, low_conf_ingredients, default_threshold>>
    /\ UNCHANGED <<envVars, searchVars, scoreVars, lazyVars, repeatVars>>

ask_node ==
    /\ pc = "ask"
    /\ LET low_conf == StateGet("low_conf_ingredients", low_conf_ingredients)
       IN  questions' = [k \in 1..Len(low_conf) |-> Question(low_conf[k])]
    /\ keys' = keys \cup {"questions"}
    /\ pc' = "END"
    /\ trace' = Append(trace, "ask")
    /\ UNCHANGED <<_collection, _model, ingredients, threshold, matches, scores,
                   low_conf_indices, low_conf_ingredients, default_threshold, calls>>
    /\ UNCHANGED <<envVars, searchVars, scoreVars, lazyVars, repeatVars>>

(***************************************************************************)
(* One run of the compiled graph: graph.invoke(state_in)                   *)
(***************************************************************************)
\* the ingredient strings of a batch: blank, plain, padded, two-token
GraphTexts == { <<" ">>, <<"a">>, <<" ", "a">>, <<"b">>, <<"a", " ", "b">> }

IngredientLists == UNION { [1..n -> GraphTexts] : n \in 0..MaxIngredients }

\* thresholds a caller passes: 0.0, 0.7, 1.0
Thresholds == { 0, 700000, Scale }

\* default_threshold values a graph is built with: 0.7 (the default) and 0.8
DefaultThresholds == { 700000, 800000 }

GraphFaults == { "none", "collection_init", "model_init", "encode", "query" }

\* no score function has been applied
ScoreIdle ==
    /\ fn = "none"
    /\ arg_distance = 0
    /\ arg_distance2 = 0
    /\ arg_query = <<>>
    /\ arg_name = <<>>
    /\ ret = <<>>

\* no caller is inside a lazy getter
LazyIdle ==
    /\ caller_pc = <<>>
    /\ caller_new = <<>>
    /\ caller_ret = <<>>

\* no state was passed to the graph and no request has been repeated
RepeatIdle ==
    /\ state_in = [keys |-> {}, questions |-> <<>>]
    /\ first = None

SearchIdle ==
    /\ query = <<>>
    /\ brand = None
    /\ top_k = 1
    /\ r_collection = None
    /\ r_model = None
    /\ spc = "idle"
    /\ results = <<>>
    /\ outcomes = [filtered |-> "not_issued", unfiltered |-> "not_issued"]

\* The caller's state_in carries any of ingredients, threshold, questions; the
\* handles are both unset (first request of the process) or both cached by an
\* earlier request (the failures are then looked at on the first request only).
GraphInit ==
    /\ store \in Stores
    /\ fault \in GraphFaults
    /\ calls = <<>>
    /\ \E warm \in BOOLEAN :
          /\ _collection = (IF warm THEN Some("collection") ELSE None)
          /\ _model = (IF warm THEN Some("model") ELSE None)
          /\ warm => fault = "none"
    /\ keys \in SUBSET {"ingredients", "threshold", "questions"}
    /\ ingredients \in IngredientLists
    /\ "ingredients" \notin keys => ingredients = <<>>
    /\ threshold \in Thresholds
    /\ "threshold" \notin keys => threshold = 0
    /\ questions \in { <<>>, <<Question(<<"b">>)>> }
    /\ "questions" \notin keys => questions = <<>>
    /\ matches = <<>>
    /\ scores = <<>>
    /\ low_conf_indices = <<>>
    /\ low_conf_ingredients = <<>>
    /\ default_threshold \in DefaultThresholds
    /\ pc = "retrieve"
    /\ trace = <<>>
    /\ state_in = [keys |-> keys, questions |-> questions]
    /\ first = None
    /\ SearchIdle
    /\ ScoreIdle
    /\ LazyIdle

GraphNext == retrieve_node \/ decide_low_conf_node \/ ask_node

GraphSpec == GraphInit /\ [][GraphNext]_vars

\* LangGraph runs the next node as soon as the previous one returned
GraphFairSpec == GraphSpec /\ WF_vars(GraphNext)

(***************************************************************************)
(* retriever.py : HybridNutritionRetriever                                 *)
(***************************************************************************)
_KEYWORD_BOOST == 150000

\* round(n / d, 6) in millionths, to the nearest
RoundDiv(n, d) ==
    IF d > 0 THEN (2 * n + d) \div (2 * d)
    ELSE (2 * (0 - n) + (0 - d)) \div (2 * (0 - d))

\* mutant: the cosine convention 1.0 - distance
_distance_to_score_OneMinus(distance) ==
    Scale - (Scale \div DistUnit) * distance

\* round(1.0 / (1.0 + distance), 6); no clamp of the distance
_distance_to_score(distance) ==
    RoundDiv(Scale * DistUnit, DistUnit + distance)

\* _parse_float: None stays None, a stored number is returned as float
_parse_float(value) == IF value = None THEN None ELSE Some(value[1])

\* a or b, on optional strings: the first one that is present and non-empty
OrElse(a, b) == IF a # None /\ a[1] # <<>> THEN a ELSE b

\* str(meta.get("exact_name") or meta.get("name") or "")
ExactName(meta) ==
    LET n == OrElse(Get(meta, "exact_name"), Get(meta, "name"))
    IN  IF n # None /\ n[1] # <<>> THEN n[1] ELSE <<>>

\* base_score is score_override when given, else _distance_to_score(distance);
\* similarity_score = round(base_score, 6) is exact on millionths
_build_ingredient(doc_id, distance, meta, score_override) ==
    LET base_score == IF score_override # None THEN score_override[1]
                      ELSE _distance_to_score(distance)
        carbs_raw  == IF Get(meta, "carbs_g") = None /\ "carbohydrates_g" \in DOMAIN meta
                      THEN Get(meta, "carbohydrates_g")
                      ELSE Get(meta, "carbs_g")
    IN  [id |-> doc_id,
         name |-> ExactName(meta),
         brand |-> OrElse(Get(meta, "brand"), None),
         similarity_score |-> base_score,
         calories |-> _parse_float(Get(meta, "energy_kcal")),
         protein |-> _parse_float(Get(meta, "protein_g")),
         carbs |-> _parse_float(carbs_raw),
         fat |-> _parse_float(Get(meta, "fat_g"))]

\* mutant: the keyword text is lower-cased but not trimmed
AdjustedScore_NoStrip(row, q) ==
    LET query_lower == Lower(q)
        keyword_hit == Contains(Lower(ExactName(row.meta)), query_lower)
    IN  _distance_to_score(row.distance) + (IF keyword_hit THEN _KEYWORD_BOOST ELSE 0)

\* adjusted_score of one row for the keyword text q
AdjustedScore(row, q) ==
    LET query_lower == Lower(Strip(q))
        keyword_hit == Contains(Lower(ExactName(row.meta)), query_lower)
    IN  _distance_to_score(row.distance) + (IF keyword_hit THEN _KEYWORD_BOOST ELSE 0)

\* mutant: the boosted candidates are returned in the store's order
_search_semantic_boosted_NoSort(docs, query_embedding, q, k) ==
    IF fault = "store_down"
    THEN [raised |-> TRUE, results |-> <<>>, unfiltered |-> "failed"]
    ELSE LET raw == StoreQuery(docs, query_embedding, k, None)
         IN  [raised |-> FALSE,
              results |-> [i \in 1..Len(raw) |->
                              _build_ingredient(raw[i].id, raw[i].distance, raw[i].meta,
                                                Some(AdjustedScore(raw[i], q)))],
              unfiltered |-> IF raw = <<>> THEN "empty" ELSE "rows"]

\* _search_semantic_boosted: [raised, results, unfiltered]
_search_semantic_boosted(docs, query_embedding, q, k) ==
    IF fault = "store_down"
    THEN [raised |-> TRUE, results |-> <<>>, unfiltered |-> "failed"]
    ELSE LET raw == StoreQuery(docs, query_embedding, k, None)
             ings == [i \in 1..Len(raw) |->
                         _build_ingredient(raw[i].id, raw[i].distance, raw[i].meta,
                                           Some(AdjustedScore(raw[i], q)))]
         IN  [raised |-> FALSE,
              results |-> SortDesc(ings, "similarity_score"),
              unfiltered |-> IF raw = <<>> THEN "empty" ELSE "rows"]

\* what the brand-filtered collection.query does: "rows", "empty", "rejected"
\* (the where clause names a field no document has) or "failed" (transport)
FilteredOutcome(docs, query_embedding, b, k) ==
    IF fault \in {"store_down", "filtered_transport"} THEN "failed"
    ELSE IF fault = "filter_rejected" THEN "rejected"
    ELSE IF StoreQuery(docs, query_embedding, k, Some(b)) = <<>> THEN "empty"
    ELSE "rows"

\* mutant: an empty filtered result is returned as it is, without fallback
_search_with_brand_NoFallback(docs, query_embedding, b, k) ==
    LET out == FilteredOutcome(docs, query_embedding, b, k)
        raw == StoreQuery(docs, query_embedding, k, Some(b))
    IN  [raised |-> FALSE,
         results |-> IF out = "rows"
                     THEN [i \in 1..Len(raw) |->
                              _build_ingredient(raw[i].id, raw[i].distance,
                                                raw[i].meta, None)]
                     ELSE <<>>,
         filtered |-> out, unfiltered |-> "not_issued"]

\* mutant: the fallback ranks by distance alone, as the filtered path does
_search_with_brand_PlainFallback(docs, query_embedding, b, k) ==
    LET out == FilteredOutcome(docs, query_embedding, b, k)
        raw == StoreQuery(docs, query_embedding, k,
                          IF out = "rows" THEN Some(b) ELSE None)
    IN  [raised |-> fault = "store_down",
         results |-> IF fault = "store_down" THEN <<>>
                     ELSE [i \in 1..Len(raw) |->
                              _build_ingredient(raw[i].id, raw[i].distance,
                                                raw[i].meta, None)],
         filtered |-> out,
         unfiltered |-> IF out = "rows" THEN "not_issued"
                        ELSE IF fault = "store_down" THEN "failed"
                        ELSE IF raw = <<>> THEN "empty" ELSE "rows"]

\* mutant: the brand-filtered rows get the keyword boost of the unfiltered path
_search_with_brand_Boosted(docs, query_embedding, b, k) ==
    LET out == FilteredOutcome(docs, query_embedding, b, k)
        raw == StoreQuery(docs, query_embedding, k, Some(b))
        fb  == _search_semantic_boosted(docs, query_embedding, b, k)
    IN  IF out = "rows"
        THEN [raised |-> FALSE,
              results |-> [i \in 1..Len(raw) |->
                              _build_ingredient(raw[i].id, raw[i].distance, raw[i].meta,
                                                Some(AdjustedScore(raw[i], b)))],
              filtered |-> out, unfiltered |-> "not_issued"]
        ELSE [raised |-> fb.raised, results |-> fb.results,
              filtered |-> out, unfiltered |-> fb.unfiltered]

\* mutant: the unfiltered request is issued next to every filtered one and
\* its rows are dropped when the filter matched
_search_with_brand_EagerUnfiltered(docs, query_embedding, b, k) ==
    LET out == FilteredOutcome(docs, query_embedding, b, k)
        raw == StoreQuery(docs, query_embedding, k, Some(b))
        fb  == _search_semantic_boosted(docs, query_embedding, b, k)
    IN  IF out = "rows"
        THEN [raised |-> FALSE,
              results |-> [i \in 1..Len(raw) |->
                              _build_ingredient(raw[i].id, raw[i].distance,
                                                raw[i].meta, None)],
              filtered |-> out, unfiltered |-> fb.unfiltered]
        ELSE [raised |-> fb.raised, results |-> fb.results,
              filtered |-> out, unfiltered |-> fb.unfiltered]

\* _search_with_brand: [raised, results, filtered, unfiltered]
\* every exception of the filtered query is swallowed by "except Exception: pass"
_search_with_brand(docs, query_embedding, b, k) ==
    LET out == FilteredOutcome(docs, query_embedding, b, k)
        raw == StoreQuery(docs, query_embedding, k, Some(b))
        fb  == _search_semantic_boosted(docs, query_embedding, b, k)
    IN  IF out = "rows"
        THEN [raised |-> FALSE,
              results |-> [i \in 1..Len(raw) |->
                              _build_ingredient(raw[i].id, raw[i].distance,
                                                raw[i].meta, None)],
              filtered |-> out, unfiltered |-> "not_issued"]
        ELSE [raised |-> fb.raised, results |-> fb.results,
              filtered |-> out, unfiltered |-> fb.unfiltered]

\* mutant: a retriever whose collection handle is not cached yet asks the
\* store for one row only
Dispatch_ColdOneRow(docs, query_embedding, q, b, k) ==
    LET n == IF r_collection = None THEN 1 ELSE k
    IN  IF b # None
        THEN _search_with_brand(docs, query_embedding, b[1], n)
        ELSE LET r == _search_semantic_boosted(docs, query_embedding, q, n)
             IN  [raised |-> r.raised, results |-> r.results,
                  filtered |-> "not_issued", unfiltered |-> r.unfiltered]

\* search_ingredient's dispatch on brand, once the embedding is there
Dispatch(docs, query_embedding, q, b, k) ==
    IF b # None
    THEN _search_with_brand(docs, query_embedding, b[1], k)
    ELSE LET r == _search_semantic_boosted(docs, query_embedding, q, k)
         IN  [raised |-> r.raised, results |-> r.results,
              filtered |-> "not_issued", unfiltered |-> r.unfiltered]

NoOutcome == [filtered |-> "not_issued", unfiltered |-> "not_issued"]

\* the collaborator calls of the dispatch, in order
QueryCalls(out) ==
    (IF out.filtered # "not_issued" THEN <<"query_filtered">> ELSE <<>>)
    \o (IF out.unfiltered # "not_issued" THEN <<"query_unfiltered">> ELSE <<>>)

\* search_ingredient, as the values it leaves behind
SearchResult ==
    LET c == GetCollection(r_collection, calls)
        m == GetEmbeddingModel(r_model, c.calls)
        d == Dispatch(store, Embed(Strip(query)), query, brand, top_k)
        raise(handle, log) ==
            [spc |-> "raised", collection |-> c.handle, model |-> handle, calls |-> log,
             results |-> results, outcomes |-> outcomes]
    IN  IF c.raised THEN raise(r_model, c.calls)
        ELSE IF m.raised THEN raise(m.handle, m.calls)
        ELSE IF fault = "encode" THEN raise(m.handle, Append(m.calls, "encode"))
        ELSE [spc |-> IF d.raised THEN "raised" ELSE "returned",
              collection |-> c.handle, model |-> m.handle,
              calls |-> Append(m.calls, "encode") \o QueryCalls(d),
              results |-> d.results,
              outcomes |-> [filtered |-> d.filtered, unfiltered |-> d.unfiltered]]

search_ingredient ==
    /\ spc = "call"
    /\ \E r \in {SearchResult} :
          /\ spc' = r.spc
          /\ r_collection' = r.collection
          /\ r_model' = r.model
          /\ calls' = r.calls
          /\ results' = r.results
          /\ outcomes' = r.outcomes
    /\ UNCHANGED <<query, brand, top_k>>
    /\ UNCHANGED <<envVars, graphVars, scoreVars, lazyVars, repeatVars>>

(***************************************************************************)
(* One call retriever.search_ingredient(query, brand, top_k)               *)
(***************************************************************************)
BrandTexts == { <<"B">>, <<"b">>, <<"a">> }

SearchFaults == { "none", "collection_init", "model_init", "encode",
                  "filter_rejected", "filtered_transport", "store_down" }

HasBrandField(docs) == \E i \in 1..Len(docs) : "brand" \in DOMAIN docs[i].meta

GraphIdle ==
    /\ _collection = None
    /\ _model = None
    /\ keys = {}
    /\ ingredients = <<>>
    /\ threshold = 0
    /\ matches = <<>>
    /\ scores = <<>>
    /\ low_conf_indices = <<>>
    /\ low_conf_ingredients = <<>>
    /\ questions = <<>>
    /\ default_threshold = 700000
    /\ pc = "idle"
    /\ trace = <<>>

\* The retriever's handles are both unset (first call) or both cached; the
\* store rejects a brand filter only when no document carries the field.
SearchInit ==
    /\ store \in SearchStores
    /\ fault \in SearchFaults
    /\ fault = "filter_rejected" => ~HasBrandField(store)
    /\ calls = <<>>
    /\ \E warm \in BOOLEAN :
          /\ r_collection = (IF warm THEN Some("collection") ELSE None)
          /\ r_model = (IF warm THEN Some("model") ELSE None)
          /\ warm => fault \notin {"collection_init", "model_init"}
    /\ query \in Texts
    /\ brand \in {None} \cup { Some(b) : b \in BrandTexts }
    /\ top_k \in 1..MaxTopK
    /\ spc = "call"
    /\ results = <<>>
    /\ outcomes = NoOutcome
    /\ GraphIdle
    /\ ScoreIdle
    /\ LazyIdle
    /\ RepeatIdle

SearchNext == search_ingredient

SearchSpec == SearchInit /\ [][SearchNext]_vars

(***************************************************************************)
(* tests/test_clarification.py: the three-ingredient example, run against  *)
(* a stub store                                                            *)
(***************************************************************************)
ChickenBreast == <<"c", "h", "i", "c", "k", "e", "n", " ", "b", "r", "e", "a", "s", "t">>
MysterySauce  == <<"m", "y", "s", "t", "e", "r", "y", " ", "s", "a", "u", "c", "e">>
SideSalad     == <<"s", "i", "d", "e", " ", "s", "a", "l", "a", "d">>
OliveOil      == <<"o", "l", "i", "v", "e", " ", "o", "i", "l">>

\* distances of the stub: a near-exact match, and candidates beyond 1.5
NearDistances == { 0, 5, 10 }
FarDistances  == { 151, 200, 400 }

\* a stub store with a 'chicken breast' document at distance near of the first
\* ingredient, and nothing closer than far1 / far2 to the second / third
ScenarioStore(near, far1, far2) ==
    << [id |-> "d1", vec |-> Embed(ChickenBreast),
        stub |-> (Embed(ChickenBreast) :> near @@ Embed(MysterySauce) :> far1
                  @@ Embed(SideSalad) :> far2),
        meta |-> [name |-> ChickenBreast, source |-> "usda", energy_kcal |-> 165,
                  protein_g |-> 31, carbohydrates_g |-> 0, fat_g |-> 4]],
       [id |-> "d2", vec |-> Embed(OliveOil),
        stub |-> (Embed(ChickenBreast) :> 120 @@ Embed(MysterySauce) :> far1 + 10
                  @@ Embed(SideSalad) :> far2 + 10),
        meta |-> [name |-> OliveOil, source |-> "usda", energy_kcal |-> 884]] >>

\* state_in = {"ingredients": [...], "threshold": 0.7}, or the same without the
\* threshold on a graph built with default_threshold=0.7
ScenarioInit ==
    /\ \E near \in NearDistances, far1, far2 \in FarDistances :
          store = ScenarioStore(near, far1, far2)
    /\ fault = "none"
    /\ calls = <<>>
    /\ \E warm \in BOOLEAN :
          /\ _collection = (IF warm THEN Some("collection") ELSE None)
          /\ _model = (IF warm THEN Some("model") ELSE None)
    /\ \E opt \in SUBSET {"threshold", "questions"} : keys = {"ingredients"} \cup opt
    /\ ingredients = <<ChickenBreast, MysterySauce, SideSalad>>
    /\ threshold = (IF "threshold" \in keys THEN 700000 ELSE 0)
    /\ questions = (IF "questions" \in keys THEN <<Question(<<"b">>)>> ELSE <<>>)
    /\ matches = <<>>
    /\ scores = <<>>
    /\ low_conf_indices = <<>>
    /\ low_conf_ingredients = <<>>
    /\ default_threshold = 700000
    /\ pc = "retrieve"
    /\ trace = <<>>
    /\ state_in = [keys |-> keys, questions |-> questions]
    /\ first = None
    /\ SearchIdle
    /\ ScoreIdle
    /\ LazyIdle

ScenarioSpec == ScenarioInit /\ [][GraphNext]_vars

(***************************************************************************)
(* A request made twice with the same inputs against the same              *)
(* collaborators: the second one starts from the handles the first one     *)
(* left behind.                                                            *)
(***************************************************************************)
\* graph.invoke(state_in) once more, after the first run returned or raised
invoke_again ==
    /\ pc \in {"END", "raised"}
    /\ first = None
    /\ first' = Some([pc |-> pc, matches |-> matches, scores |-> scores,
                      low_conf_indices |-> low_conf_indices,
                      low_conf_ingredients |-> low_conf_ingredients,
                      questions |-> questions, calls |-> calls])
    /\ keys' = state_in.keys
    /\ questions' = state_in.questions
    /\ matches' = <<>>
    /\ scores' = <<>>
    /\ low_conf_indices' = <<>>
    /\ low_conf_ingredients' = <<>>
    /\ pc' = "retrieve"
    /\ trace' = <<>>
    /\ calls' = <<>>
    /\ UNCHANGED <<_collection, _model, ingredients, threshold, default_threshold,
                   state_in>>
    /\ UNCHANGED <<envVars, searchVars, scoreVars, lazyVars>>

\* retriever.search_ingredient(query, brand, top_k) once more on the same
\* retriever object
search_again ==
    /\ spc \in {"returned", "raised"}
    /\ first = None
    /\ first' = Some([spc |-> spc, results |-> results, outcomes |-> outcomes,
                      calls |-> calls])
    /\ spc' = "call"
    /\ results' = <<>>
    /\ outcomes' = NoOutcome
    /\ calls' = <<>>
    /\ UNCHANGED <<query, brand, top_k, r_collection, r_model, state_in>>
    /\ UNCHANGED <<envVars, graphVars, scoreVars, lazyVars>>

TwiceInit == GraphInit \/ SearchInit

TwiceNext ==
    \/ GraphNext
    \/ invoke_again
    \/ SearchNext
    \/ search_again

TwiceSpec == TwiceInit /\ [][TwiceNext]_vars

(***************************************************************************)
(* The score functions, each applied to a pair of argument tuples          *)
(***************************************************************************)
\* retrieval_server.py: round(1.0 / (1.0 + distance), 4); no clamp
_distance_to_confidence(distance) ==
    100 * RoundDiv(10000 * DistUnit, DistUnit + distance)

\* distances in hundredths: negative ones (numerical noise and beyond, -1.0
\* among them), zero, the range of a normalised embedding space, and two
\* large neighbours
ScoreDistances == { -200, -150, -100, -50, -1, 0, 1, 50, 100, 400, 15001, 15002 }

Returned(v) == [raised |-> FALSE, value |-> v]

\* ZeroDivisionError out of 1.0 / (1.0 + distance)
Raised == [raised |-> TRUE, value |-> 0]

\* 1.0 / (1.0 + distance) without clamp raises when 1.0 + distance is 0.0
ZeroDivision(distance) == DistUnit + distance = 0

\* one call of _distance_to_score: its value, or the exception
Call_distance_to_score(distance) ==
    IF ZeroDivision(distance) THEN Raised
    ELSE Returned(_distance_to_score(distance))

\* one call of _distance_to_confidence: its value, or the exception
Call_distance_to_confidence(distance) ==
    IF ZeroDivision(distance) THEN Raised
    ELSE Returned(_distance_to_confidence(distance))

ScoreFrame ==
    /\ UNCHANGED <<arg_distance, arg_distance2, arg_query, arg_name>>
    /\ UNCHANGED <<envVars, calls, graphVars, searchVars, lazyVars, repeatVars>>

\* _compute_score on both distances
call_compute_score ==
    /\ fn = "none"
    /\ fn' = "_compute_score"
    /\ ret' = << Returned(_compute_score(arg_distance)),
                 Returned(_compute_score(arg_distance2)) >>
    /\ ScoreFrame

\* _distance_to_score on both distances
call_distance_to_score ==
    /\ fn = "none"
    /\ fn' = "_distance_to_score"
    /\ ret' = << Call_distance_to_score(arg_distance),
                 Call_distance_to_score(arg_distance2) >>
    /\ ScoreFrame

\* _distance_to_confidence on both distances
call_distance_to_confidence ==
    /\ fn = "none"
    /\ fn' = "_distance_to_confidence"
    /\ ret' = << Call_distance_to_confidence(arg_distance),
                 Call_distance_to_confidence(arg_distance2) >>
    /\ ScoreFrame

\* _lexical_overlap(query, name) and _lexical_overlap(name, query)
call_lexical_overlap ==
    /\ fn = "none"
    /\ fn' = "_lexical_overlap"
    /\ ret' = << Returned(_lexical_overlap(arg_query, arg_name)),
                 Returned(_lexical_overlap(arg_name, arg_query)) >>
    /\ ScoreFrame

\* _combined_match_score(distance, query, name) on both distances
call_combined_match_score ==
    /\ fn = "none"
    /\ fn' = "_combined_match_score"
    /\ ret' = << Returned(_combined_match_score(arg_distance, arg_query, arg_name)),
                 Returned(_combined_match_score(arg_distance2, arg_query, arg_name)) >>
    /\ ScoreFrame

ScoreInit ==
    /\ store = EmptyStore
    /\ fault = "none"
    /\ calls = <<>>
    /\ fn = "none"
    /\ arg_distance \in ScoreDistances
    /\ arg_distance2 \in ScoreDistances
    /\ arg_distance <= arg_distance2
    /\ arg_query \in Texts
    /\ arg_name \in Texts
    /\ ret = <<>>
    /\ GraphIdle
    /\ SearchIdle
    /\ LazyIdle
    /\ RepeatIdle

ScoreNext ==
    \/ call_compute_score
    \/ call_distance_to_score
    \/ call_distance_to_confidence
    \/ call_lexical_overlap
    \/ call_combined_match_score

ScoreSpec == ScoreInit /\ [][ScoreNext]_vars

(***************************************************************************)
(* Concurrent calls of a lazy getter.  _get_embedding_model is modelled;   *)
(* _get_collection, _get_hybrid_retriever and the retriever's _get_model   *)
(* and _get_collection have the same test / construct / store / return     *)
(* shape.  The synchronous endpoint runs in the server's thread pool, so   *)
(* callers interleave between these steps.                                 *)
(***************************************************************************)
Callers == 1..MaxCallers

LazyFrame ==
    /\ UNCHANGED <<envVars, _collection, keys, ingredients, threshold, matches, scores,
                   low_conf_indices, low_conf_ingredients, questions,
                   default_threshold, pc, trace>>
    /\ UNCHANGED <<searchVars, scoreVars, repeatVars>>

\* if _model is None:
lazy_test(t) ==
    /\ caller_pc[t] = "test"
    /\ caller_pc' = [caller_pc EXCEPT ![t] = IF _model = None THEN "construct"
                                             ELSE "return"]
    /\ UNCHANGED <<_model, calls, caller_new, caller_ret>>
    /\ LazyFrame

\* SentenceTransformer("all-MiniLM-L6-v2"): a new instance, or an exception
lazy_construct(t) ==
    /\ caller_pc[t] = "construct"
    /\ calls' = Append(calls, "SentenceTransformer")
    /\ IF fault = "model_init"
       THEN /\ caller_pc' = [caller_pc EXCEPT ![t] = "raised"]
            /\ UNCHANGED caller_new
       ELSE /\ caller_pc' = [caller_pc EXCEPT ![t] = "store"]
            /\ caller_new' = [caller_new EXCEPT ![t] = Some(Len(calls) + 1)]
    /\ UNCHANGED <<_model, caller_ret>>
    /\ LazyFrame

\* _model = <the new instance>
lazy_store(t) ==
    /\ caller_pc[t] = "store"
    /\ _model' = caller_new[t]
    /\ caller_pc' = [caller_pc EXCEPT ![t] = "return"]
    /\ UNCHANGED <<calls, caller_new, caller_ret>>
    /\ LazyFrame

\* return _model
lazy_return(t) ==
    /\ caller_pc[t] = "return"
    /\ caller_ret' = [caller_ret EXCEPT ![t] = _model]
    /\ caller_pc' = [caller_pc EXCEPT ![t] = "done"]
    /\ UNCHANGED <<_model, calls, caller_new>>
    /\ LazyFrame

\* The handle is unset (first use) or was set by an earlier request; every
\* caller is about to enter the getter.
LazyInit ==
    /\ store = EmptyStore
    /\ fault \in {"none", "model_init"}
    /\ calls = <<>>
    /\ _model \in {None, Some(0)}
    /\ _model # None => fault = "none"
    /\ _collection = None
    /\ keys = {}
    /\ ingredients = <<>>
    /\ threshold = 0
    /\ matches = <<>>
    /\ scores = <<>>
    /\ low_conf_indices = <<>>
    /\ low_conf_ingredients = <<>>
    /\ questions = <<>>
    /\ default_threshold = 700000
    /\ pc = "idle"
    /\ trace = <<>>
    /\ caller_pc = [t \in Callers |-> "test"]
    /\ caller_new = [t \in Callers |-> None]
    /\ caller_ret = [t \in Callers |-> None]
    /\ SearchIdle
    /\ ScoreIdle
    /\ RepeatIdle

LazyNext ==
    \E t \in Callers :
        \/ lazy_test(t)
        \/ lazy_construct(t)
        \/ lazy_store(t)
        \/ lazy_return(t)

LazySpec == LazyInit /\ [][LazyNext]_vars

(***************************************************************************)
(* Properties of the clarification graph (GraphSpec, GraphFairSpec)        *)
(***************************************************************************)
\* the threshold decide_low_conf_node compares with
EffectiveThreshold == IF "threshold" \in keys THEN threshold ELSE default_threshold

\* C1: in the state the graph returns, matches, scores and ingredients have the
\* same length, also when the input list holds blank entries.
C1_Aligned ==
    pc = "END" =>
        /\ Len(matches) = Len(scores)
        /\ Len(scores) = Len(ingredients)

\* C2: each low_conf_ingredients[k] is the ingredient string whose retrieval
\* produced scores[low_conf_indices[k]], i.e. the entry of the filtered list at
\* that index (compared after trimming).
C2_LowConfStringsMatch ==
    pc = "END" =>
        /\ Len(low_conf_ingredients) = Len(low_conf_indices)
        /\ \A k \in 1..Len(low_conf_ingredients) :
              /\ low_conf_indices[k] < Len(StripNonBlank(ingredients))
              /\ Strip(low_conf_ingredients[k])
                    = StripNonBlank(ingredients)[low_conf_indices[k] + 1]

\* C3: after DECIDE low_conf_indices is exactly the ascending list of the
\* indices i with scores[i] < threshold; a score equal to the threshold is not
\* low-confidence.
C3_DecideStrict ==
    pc \in {"ask", "END"} =>
        /\ \A k \in 1..Len(low_conf_indices) :
              /\ low_conf_indices[k] \in 0..(Len(scores) - 1)
              /\ scores[low_conf_indices[k] + 1] < EffectiveThreshold
        /\ \A i \in 0..(Len(scores) - 1) :
              scores[i + 1] < EffectiveThreshold
                  => \E k \in 1..Len(low_conf_indices) : low_conf_indices[k] = i
        /\ \A k \in 1..(Len(low_conf_indices) - 1) :
              low_conf_indices[k] < low_conf_indices[k + 1]

\* a run where one score equals the threshold and another one is below it
C3_Witness ==
    /\ pc = "END"
    /\ low_conf_indices # <<>>
    /\ \E i \in 1..Len(scores) : scores[i] = EffectiveThreshold

\* C4: at DONE with non-empty low_conf_indices there is one question per
\* low-confidence index, the k-th question being the one generated for the k-th
\* mirrored low-confidence ingredient.
C4_OneQuestionPerLowConf ==
    (pc = "END" /\ low_conf_indices # <<>>) =>
        /\ Len(questions) = Len(low_conf_indices)
        /\ Len(low_conf_ingredients) = Len(low_conf_indices)
        /\ \A k \in 1..Len(questions) :
              questions[k] = Question(low_conf_ingredients[k])

\* a run that ends with two questions
C4_Witness ==
    /\ pc = "END"
    /\ Len(low_conf_indices) = 2
    /\ Len(questions) = 2

\* C5: in the state returned at DONE, questions is non-empty iff
\* low_conf_indices is non-empty, whatever state the caller passed in.
C5_QuestionsIffLowConf ==
    pc = "END" => ((questions # <<>>) <=> (low_conf_indices # <<>>))

\* C6: every run executes retrieve once, then decide_low_conf once, then ask at
\* most once and only for non-empty low_conf_indices; nothing runs after END;
\* a run whose collaborators return reaches END.
C6_PipelineOrder ==
    /\ [](\E n \in 0..3 :
            trace = SubSeq(<<"retrieve", "decide_low_conf", "ask">>, 1, n))
    /\ [](pc = "END" =>
            /\ trace \in { <<"retrieve", "decide_low_conf">>,
                           <<"retrieve", "decide_low_conf", "ask">> }
            /\ (trace = <<"retrieve", "decide_low_conf", "ask">>
                   <=> low_conf_indices # <<>>))
    /\ [][pc = "END" => UNCHANGED vars]_vars
    /\ ((pc = "retrieve" /\ fault = "none") ~> (pc = "END"))

\* a run that went through ask
C6_Witness ==
    /\ pc = "END"
    /\ trace = <<"retrieve", "decide_low_conf", "ask">>
    /\ low_conf_indices # <<>>

\* C7: for an empty ingredient list the run reaches DONE with matches, scores,
\* low_conf_indices and questions empty, and no collaborator was called.
C7_EmptyInputNoCollaborator ==
    (ingredients = <<>> /\ pc # "retrieve") =>
        /\ pc # "raised"
        /\ calls = <<>>
        /\ matches = <<>>
        /\ scores = <<>>
        /\ low_conf_indices = <<>>
        /\ (pc = "END" => questions = <<>>)

\* C8: every index in low_conf_indices is a valid index of ingredients and of
\* scores, and none occurs twice.
C8_IndicesValid ==
    pc \in {"ask", "END"} =>
        /\ \A k \in 1..Len(low_conf_indices) :
              /\ 0 <= low_conf_indices[k]
              /\ low_conf_indices[k] < Len(ingredients)
              /\ low_conf_indices[k] < Len(scores)
        /\ \A k, l \in 1..Len(low_conf_indices) :
              k # l => low_conf_indices[k] # low_conf_indices[l]

\* a run that skipped a blank entry and ended with the last score low
C8_Witness ==
    /\ pc = "END"
    /\ Len(scores) < Len(ingredients)
    /\ low_conf_indices # <<>>
    /\ low_conf_indices[Len(low_conf_indices)] = Len(scores) - 1

\* C18: an ingredient for which the store returns no candidates is not an
\* error: it gets an empty match list and score 0.0, DECIDE places its index
\* in low_conf_indices, and a clarification question is generated for it.
C18_NoCandidatesAsked ==
    pc = "END" =>
        LET filtered == StripNonBlank(ingredients)
        IN  \A i \in 1..Len(filtered) :
                StoreQuery(store, Embed(filtered[i]), 5, None) = <<>> =>
                    /\ i <= Len(matches) /\ matches[i] = <<>>
                    /\ i <= Len(scores) /\ scores[i] = 0
                    /\ \E k \in 1..Len(low_conf_indices) :
                          /\ low_conf_indices[k] = i - 1
                          /\ k <= Len(questions)
                          /\ k <= Len(low_conf_ingredients)
                          /\ Strip(low_conf_ingredients[k]) = filtered[i]
                          /\ questions[k] = Question(low_conf_ingredients[k])

\* RETRIEVE has returned in this run
Retrieved == pc \in {"decide", "ask", "END"}

\* the store's answer for the i-th ingredient that RETRIEVE kept
RetrieveRows(i) ==
    LET text == StripNonBlank(StateGet("ingredients", ingredients))[i]
    IN  StoreQuery(store, Embed(text), 5, None)

\* C26: after RETRIEVE every matches[i] is sorted by blended score descending,
\* scores[i] is the largest blended score in matches[i], which is the score of
\* its first element, or 0.0 when matches[i] is empty; matches and scores are
\* written together, and matches[i] holds exactly the candidates of the store's
\* answer for ingredient i.
C26_ScoresAreMaxOfMatches ==
    /\ ("scores" \in keys) <=> ("matches" \in keys)
    /\ Retrieved =>
          /\ {"matches", "scores"} \subseteq keys
          /\ Len(scores) = Len(matches)
          /\ \A i \in 1..Len(matches) :
                /\ \A m \in 1..(Len(matches[i]) - 1) :
                      matches[i][m].score >= matches[i][m + 1].score
                /\ \A m \in 1..Len(matches[i]) : matches[i][m].score <= scores[i]
                /\ scores[i] = IF matches[i] = <<>> THEN 0 ELSE matches[i][1].score
                /\ Len(matches[i]) = Len(RetrieveRows(i))
                /\ \A r \in 1..Len(RetrieveRows(i)) :
                      \E m \in 1..Len(matches[i]) :
                          /\ matches[i][m].id = RetrieveRows(i)[r].id
                          /\ matches[i][m].distance = RetrieveRows(i)[r].distance

\* the best candidate of an ingredient is not the nearest one: the sort moved
\* it to the front and scores[i] is its score
C26_Witness ==
    /\ Retrieved
    /\ \E i \in 1..Len(matches) :
          /\ Len(matches[i]) >= 2
          /\ matches[i][1].distance > matches[i][2].distance
          /\ matches[i][1].score > matches[i][2].score
          /\ scores[i] = matches[i][1].score

\* the 0-based positions of the scores below the bound thr
Below(thr) == { i \in 0..(Len(scores) - 1) : scores[i + 1] < thr }

\* the positions DECIDE reported
Reported == { low_conf_indices[k] : k \in 1..Len(low_conf_indices) }

\* C27: DECIDE compares with the threshold of the input state whenever the
\* state carries one, the values 0.0 and 1.0 included (with 0.0 nothing is
\* low-confidence, with 1.0 every score below 1.0 is), and with the default
\* bound when the graph was built only when the state carries no threshold.
C27_ExplicitThresholdWins ==
    pc \in {"ask", "END"} =>
        /\ "threshold" \in keys => Reported = Below(threshold)
        /\ "threshold" \notin keys => Reported = Below(default_threshold)
        /\ ("threshold" \in keys /\ threshold = 0) =>
              low_conf_indices = <<>> /\ questions = state_in.questions
        /\ ("threshold" \in keys /\ threshold = Scale) =>
              \A i \in 1..Len(scores) : scores[i] < Scale => (i - 1) \in Reported

\* an explicit threshold 0.0 on a graph whose default would have reported a
\* score, and nothing is reported
C27_Witness ==
    /\ pc = "END"
    /\ "threshold" \in keys
    /\ threshold = 0
    /\ Below(default_threshold) # {}
    /\ low_conf_indices = <<>>

\* what neither DECIDE nor ASK touches: the collaborators and their call log,
\* the cached handles, and the inputs and outputs of RETRIEVE
RetrieveOwned == <<store, fault, calls, _collection, _model,
                   ingredients, threshold, default_threshold, matches, scores>>

\* C28: a step of DECIDE makes no embedding or store call and changes nothing
\* but low_conf_indices and low_conf_ingredients; a step of ASK makes no call
\* and changes nothing but questions; no step is taken once the run is DONE.
C28_DecideAskFrame ==
    [][ /\ pc = "decide" =>
              /\ UNCHANGED RetrieveOwned
              /\ UNCHANGED questions
              /\ keys' \subseteq keys \cup {"low_conf_indices", "low_conf_ingredients"}
        /\ pc = "ask" =>
              /\ UNCHANGED RetrieveOwned
              /\ UNCHANGED <<low_conf_indices, low_conf_ingredients>>
              /\ keys' \subseteq keys \cup {"questions"}
        /\ pc = "END" => UNCHANGED vars ]_vars

\* a finished run in which RETRIEVE called the collaborators and filled
\* matches and scores, DECIDE reported an ingredient and ASK wrote a question
C28_Witness ==
    /\ pc = "END"
    /\ trace = <<"retrieve", "decide_low_conf", "ask">>
    /\ calls # <<>>
    /\ \E i \in 1..Len(matches) : matches[i] # <<>>
    /\ low_conf_ingredients # <<>>
    /\ questions # state_in.questions

(***************************************************************************)
(* Properties of the three-ingredient example (ScenarioSpec)               *)
(***************************************************************************)
\* C23: for [chicken breast, mystery sauce, side salad] with threshold 0.7,
\* a near-exact 'chicken breast' match for the first and only candidates
\* beyond distance 1.5 without a shared token for the other two, the run ends
\* with low_conf_indices == [1, 2] and exactly two questions, naming
\* 'mystery sauce' and 'side salad' in that order.
C23_ScenarioAsksTwo ==
    pc = "END" =>
        /\ scores[1] >= 700000
        /\ low_conf_indices = <<1, 2>>
        /\ Len(questions) = 2
        /\ questions[1].ing = MysterySauce
        /\ questions[2].ing = SideSalad

\* the run on the stub with the chicken breast document at distance 0.05
C23_Witness ==
    /\ pc = "END"
    /\ matches[1][1].name = ChickenBreast
    /\ matches[1][1].distance = 5
    /\ \A m \in 2..3 : \A j \in 1..Len(matches[m]) : matches[m][j].distance > 150
    /\ Len(questions) = 2

(***************************************************************************)
(* Properties of search_ingredient (SearchSpec)                            *)
(***************************************************************************)
\* the brand-filtered request of this call came back with zero rows
FilteredEmpty == spc = "returned" /\ outcomes.filtered = "empty"

\* C9 as stated: with zero brand-filtered candidates the call returns what
\* search_ingredient(brand, None, top_k) returns.
C9_SameAsSearchForBrand ==
    FilteredEmpty =>
        results = Dispatch(store, Embed(Strip(brand[1])), brand[1], None, top_k).results

\* the unfiltered rows for the embedding of the original query text
QueryRows == StoreQuery(store, Embed(Strip(query)), top_k, None)

\* C9 amended: with zero brand-filtered candidates the call returns the
\* candidates of the unfiltered request made with the embedding of the
\* original query, each scored by distance_to_similarity plus the keyword boost
\* for the brand string, highest score first.
C9_FallbackKeepsQueryEmbedding ==
    FilteredEmpty =>
        /\ Len(results) = Len(QueryRows)
        /\ \A i \in 1..Len(QueryRows) :
              \E j \in 1..Len(results) :
                 /\ results[j].id = QueryRows[i].id
                 /\ results[j].similarity_score =
                       _distance_to_score(QueryRows[i].distance)
                       + (IF Contains(Lower(results[j].name), Lower(Strip(brand[1])))
                          THEN _KEYWORD_BOOST ELSE 0)
        /\ \A j \in 1..(Len(results) - 1) :
              results[j].similarity_score >= results[j + 1].similarity_score

\* a fallback whose result is not what a search for the brand text returns,
\* with a boosted candidate in it
C9_Witness ==
    /\ FilteredEmpty
    /\ results # <<>>
    /\ results # Dispatch(store, Embed(Strip(brand[1])), brand[1], None, top_k).results
    /\ \E j \in 1..Len(results) :
          Contains(Lower(results[j].name), Lower(Strip(brand[1])))

\* C10: a brand-filtered search whose filtered request returns zero rows or is
\* rejected never ends in an error and never returns an empty list when the
\* unfiltered request on the same store returns a candidate.
C10_FallbackNeverEmpty ==
    (/\ spc \in {"returned", "raised"}
     /\ outcomes.filtered \in {"empty", "rejected"}
     /\ QueryRows # <<>>)
        => (spc = "returned" /\ results # <<>>)

\* a rejected filter answered from the unfiltered request
C10_Witness ==
    /\ spc = "returned"
    /\ outcomes.filtered = "rejected"
    /\ outcomes.unfiltered = "rows"
    /\ results # <<>>

\* a collaborator call of this request failed for a reason other than the brand
\* filter: handle construction, encode, or a store request that is down
GenuineFailure ==
    \/ fault \in {"collection_init", "model_init", "encode"}
    \/ outcomes.filtered = "failed"
    \/ outcomes.unfiltered = "failed"

\* C11: a genuine collaborator failure during search_ingredient reaches the
\* caller on the unfiltered and on the brand-filtered path; the call returns
\* normally only when nothing failed or the brand filter matched nothing or
\* did not apply.
C11_FailurePropagates ==
    spc \in {"returned", "raised"} => (spc = "raised" <=> GenuineFailure)

\* C12: every list search_ingredient returns, on the unfiltered, the
\* brand-filtered and the fallback path, is ordered by similarity_score
\* non-increasing and is at most top_k long.
C12_SortedAtMostTopK ==
    spc = "returned" =>
        /\ Len(results) <= top_k
        /\ \A j \in 1..(Len(results) - 1) :
              results[j].similarity_score >= results[j + 1].similarity_score

\* an unfiltered search that returns top_k candidates and where the keyword
\* boost moved the second-nearest candidate to the front
C12_Witness ==
    /\ spc = "returned"
    /\ brand = None
    /\ Len(results) = top_k
    /\ Len(QueryRows) = 2
    /\ results[1].id = QueryRows[2].id
    /\ results[1].similarity_score > results[2].similarity_score

\* the base similarity of the returned candidate with this id
BaseSimilarity(id) ==
    LET i == CHOOSE i \in 1..Len(QueryRows) : QueryRows[i].id = id
    IN  _distance_to_score(QueryRows[i].distance)

C19_InvalidQueryRejected ==
    (Strip(query) = <<>> /\ spc \in {"returned", "raised"}) =>
        (spc = "raised" /\ calls = <<>>)

\* the position of the candidate with this id in the store's answer
StoreRank(id) == CHOOSE i \in 1..Len(QueryRows) : QueryRows[i].id = id

\* the list is ordered by score descending, equal scores in the store's order
StableDescending ==
    \A j, l \in 1..Len(results) :
        j < l =>
            \/ results[j].similarity_score > results[l].similarity_score
            \/ /\ results[j].similarity_score = results[l].similarity_score
               /\ StoreRank(results[j].id) < StoreRank(results[l].id)

FilteredRows == StoreQuery(store, Embed(Strip(query)), top_k, brand)

\* C25: when the brand-filtered request returns at least one candidate, the
\* result is those candidates in the store's order, each scored
\* round(1 / (1 + distance), 6) with nothing added, and the scores are
\* non-increasing along the list.
C25_FilteredPathUnboosted ==
    (spc = "returned" /\ outcomes.filtered = "rows") =>
        /\ Len(results) = Len(FilteredRows)
        /\ \A j \in 1..Len(results) :
              /\ results[j].id = FilteredRows[j].id
              /\ results[j].similarity_score =
                     _distance_to_score(FilteredRows[j].distance)
        /\ \A j \in 1..(Len(results) - 1) :
              results[j].similarity_score >= results[j + 1].similarity_score

\* a filtered result with a candidate whose name contains the query text and
\* another whose name contains the brand text, both lower-cased
C25_Witness ==
    /\ spc = "returned"
    /\ outcomes.filtered = "rows"
    /\ Len(results) = 2
    /\ \E j \in 1..2 :
          /\ Contains(Lower(results[j].name), Lower(Strip(query)))
          /\ results[j].similarity_score = _distance_to_score(FilteredRows[j].distance)
    /\ \E j \in 1..2 :
          /\ Contains(Lower(results[j].name), Lower(brand[1]))
          /\ results[j].similarity_score = _distance_to_score(FilteredRows[j].distance)
    /\ results[1].similarity_score > results[2].similarity_score

\* how many times the call log holds this collaborator call
RECURSIVE Count(_, _)
Count(log, c) ==
    IF log = <<>> THEN 0
    ELSE (IF Head(log) = c THEN 1 ELSE 0) + Count(Tail(log), c)

\* the collaborator calls from the encode on
RECURSIVE FromEncode(_)
FromEncode(log) ==
    IF log = <<>> \/ Head(log) = "encode" THEN log ELSE FromEncode(Tail(log))

\* the brand-filtered request of this call answers with at least one row
FilterMatches ==
    brand # None /\ fault \notin {"filter_rejected", "filtered_transport", "store_down"}
                 /\ FilteredRows # <<>>

\* C30: a call of search_ingredient that reaches the store encodes once and
\* then issues: one unfiltered request when no brand is given; one filtered
\* request and no unfiltered one when the filter matches a row; one filtered
\* request followed by one unfiltered request, answered for the embedding of
\* the original query text, when the filter matches nothing or raises.
C30_OneEncodeAtMostTwoQueries ==
    /\ Count(calls, "encode") <= 1
    /\ Count(calls, "query_filtered") + Count(calls, "query_unfiltered") <= 2
    /\ (spc \in {"returned", "raised"} /\ Count(calls, "encode") = 1
          /\ fault # "encode") =>
          /\ brand = None => FromEncode(calls) = <<"encode", "query_unfiltered">>
          /\ FilterMatches => FromEncode(calls) = <<"encode", "query_filtered">>
          /\ (brand # None /\ ~FilterMatches) =>
                /\ FromEncode(calls) = <<"encode", "query_filtered", "query_unfiltered">>
                /\ spc = "returned" =>
                      { results[j].id : j \in 1..Len(results) }
                          = { QueryRows[i].id : i \in 1..Len(QueryRows) }
    /\ spc = "returned" => Count(calls, "encode") = 1

\* a call on cached handles whose filtered request raised and whose fallback
\* returned the rows nearest to the original query
C30_Witness ==
    /\ spc = "returned"
    /\ fault = "filtered_transport"
    /\ calls = <<"encode", "query_filtered", "query_unfiltered">>
    /\ Len(results) = 2
    /\ Embed(Strip(query)) # Embed(Strip(brand[1]))

(***************************************************************************)
(* Properties of the score functions (ScoreSpec)                           *)
(***************************************************************************)
\* C13: every distance-to-similarity conversion clamps a negative distance to
\* 0 before dividing: a negative distance yields similarity 1.0 and a distance
\* of -1 does not raise a division by zero.
C13_NegativeClamped ==
    (/\ fn \in {"_compute_score", "_distance_to_score", "_distance_to_confidence"}
     /\ arg_distance < 0)
        => (~ret[1].raised /\ ret[1].value = Scale)

C15_JaccardSymmetric ==
    fn = "_lexical_overlap" =>
        LET q_set == Tokens(arg_query)
            n_set == Tokens(arg_name)
        IN  /\ ~ret[1].raised
            /\ ret[1].value =
                  (IF q_set = {} \/ n_set = {} THEN 0
                   ELSE (Scale * Cardinality(q_set \cap n_set))
                            \div Cardinality(q_set \cup n_set))
            /\ ret[1] = ret[2]
            /\ (ret[1].value = Scale <=> (q_set = n_set /\ q_set # {}))

\* a partial overlap: a two-token text against one of its tokens
C15_Witness ==
    /\ fn = "_lexical_overlap"
    /\ Cardinality(Tokens(arg_query)) = 2
    /\ Cardinality(Tokens(arg_name)) = 1
    /\ ret[1].value = Scale \div 2
    /\ ret[2].value = Scale \div 2

\* C17: blended_score = 0.7 * distance_to_similarity + 0.3 * lexical_overlap
\* lies in [0, 1] for every distance, negative ones included, and every pair
\* of strings.
C17_BlendInUnitInterval ==
    fn = "_combined_match_score" =>
        \A i \in 1..2 :
            /\ ~ret[i].raised
            /\ 0 <= ret[i].value
            /\ ret[i].value <= Scale
            /\ ret[i].value =
                  (7 * _compute_score(IF i = 1 THEN arg_distance ELSE arg_distance2)
                   + 3 * _lexical_overlap(arg_query, arg_name)) \div 10

\* a negative distance and equal token sets: the blend is exactly 1.0
C17_Witness ==
    /\ fn = "_combined_match_score"
    /\ arg_distance < 0
    /\ Tokens(arg_query) = Tokens(arg_name)
    /\ ret[1].value = Scale

(***************************************************************************)
(* Properties of the lazy getters (LazySpec)                               *)
(***************************************************************************)
\* C20: under any interleaving of concurrent first calls to a lazy getter the
\* handle is constructed at most once and every caller that returned holds the
\* same instance; once the handle is set no later call constructs again.
C20_ConstructedOnce ==
    /\ Cardinality({ t \in Callers : caller_new[t] # None }) <= 1
    /\ \A t, u \in Callers :
          (caller_pc[t] = "done" /\ caller_pc[u] = "done")
              => caller_ret[t] = caller_ret[u]

C22_InitFailureNotCached ==
    /\ (fault = "collection_init" /\ spc \in {"returned", "raised"}) =>
          (spc = "raised" /\ calls = <<"get_collection">> /\ r_collection = None)
    /\ (fault = "model_init" /\ spc \in {"returned", "raised"}) =>
          /\ spc = "raised"
          /\ calls \in { <<"get_collection", "SentenceTransformer">>,
                          <<"SentenceTransformer">> }
          /\ r_model = None
    /\ (fault = "collection_init" /\ pc \notin {"idle", "retrieve"}) =>
          (pc = "raised" /\ calls = <<"get_collection">> /\ _collection = None)
    /\ (fault = "model_init" /\ pc \notin {"idle", "retrieve"}) =>
          /\ pc = "raised"
          /\ calls \in { <<"get_collection", "SentenceTransformer">>,
                          <<"SentenceTransformer">> }
          /\ _model = None

\* the request after a failed one attempts the construction again
C22_Witness ==
    /\ first # None
    /\ fault = "collection_init"
    /\ spc = "raised"
    /\ first[1].spc = "raised"
    /\ calls = <<"get_collection">>
    /\ r_collection = None

\* the metadata the store holds for the candidate with this id
StoredMeta(id) ==
    LET i == CHOOSE i \in 1..Len(store) : store[i].id = id
    IN  store[i].meta

\* the stored carbohydrate value: under 'carbs_g', else under 'carbohydrates_g'
StoredCarbs(meta) ==
    IF "carbs_g" \in DOMAIN meta THEN Some(meta.carbs_g)
    ELSE Get(meta, "carbohydrates_g")

\* C29: for every candidate returned by the hybrid retriever and for every
\* match written by RETRIEVE, energy, protein and fat are None exactly when
\* the store's metadata lacks the field and the stored number otherwise (0
\* stays 0), and the carbohydrate value is the one stored under 'carbs_g',
\* else the one under 'carbohydrates_g', else None.
C29_NutrientsPreserved ==
    /\ spc = "returned" =>
          \A j \in 1..Len(results) :
              LET meta == StoredMeta(results[j].id)
              IN  /\ results[j].calories = Get(meta, "energy_kcal")
                  /\ results[j].protein = Get(meta, "protein_g")
                  /\ results[j].fat = Get(meta, "fat_g")
                  /\ results[j].carbs = StoredCarbs(meta)
    /\ pc \in {"decide", "ask", "END"} =>
          \A i \in 1..Len(matches) : \A m \in 1..Len(matches[i]) :
              LET meta == StoredMeta(matches[i][m].id)
              IN  /\ matches[i][m].energy_kcal = Get(meta, "energy_kcal")
                  /\ matches[i][m].protein_g = Get(meta, "protein_g")
                  /\ matches[i][m].fat_g = Get(meta, "fat_g")
                  /\ matches[i][m].carbohydrates_g = StoredCarbs(meta)

====
